---------------------------- MODULE Spec2Model ----------------------------
(***************************************************************************)
(* A model of thalesians/tsa/processes.py: the process class hierarchy,    *)
(* the single-slot distribution cache of MarkovProcess.propagate_distr,    *)
(* the Wiener and Ornstein-Uhlenbeck closed forms and the two single-slot  *)
(* memo caches of OrnsteinUhlenbeckProcess.                                *)
(*                                                                         *)
(* Python values are records tagged by the field k:                        *)
(*   None, ints and floats (exact rationals n/d, nan), decimal.Decimal,    *)
(*   datetime.timedelta, datetime.datetime, 2-D numpy arrays, NormalDistr, *)
(*   and symbolic terms for the results of scipy.linalg.expm and the       *)
(*   quantities derived from them, which have no closed rational form.     *)
(***************************************************************************)
EXTENDS Integers, Sequences, FiniteSets, TLC

VARIABLES self, call, ret, nimpl, ref

vars == <<self, call, ret, nimpl, ref>>

-----------------------------------------------------------------------------
(* Bounds of the model *)

\* plain-number and datetime time coordinates range over 0..MaxTime
MaxTime == 1
\* a datetime tick is 1/TicksPerDay of a day
TicksPerDay == 2

-----------------------------------------------------------------------------
(* Python values *)

None == [k |-> "None"]

Abs(i) == IF i < 0 THEN -i ELSE i

RECURSIVE GCD(_, _)
GCD(a, b) == IF b = 0 THEN a ELSE GCD(b, a % b)

\* the float n/d, in lowest terms with a positive denominator
Rat(n, d) ==
    LET g == GCD(Abs(n), Abs(d))
        s == IF d < 0 THEN -1 ELSE 1
    IN  [k |-> "num", n |-> (s * n) \div g, d |-> Abs(d) \div g]

Num(n) == [k |-> "num", n |-> n, d |-> 1]
NaN == [k |-> "nan"]
\* decimal.Decimal(n/d): a number that a float array cannot be multiplied by
Decimal(n, d) == [k |-> "decimal", n |-> n, d |-> d]
\* datetime.timedelta and datetime.datetime, in ticks
TimeDelta(t) == [k |-> "timedelta", ticks |-> t]
DateTime(t) == [k |-> "datetime", ticks |-> t]

IsNumber(x) == x.k \in {"num", "nan"}
Sgn(x) == IF x.n > 0 THEN 1 ELSE IF x.n < 0 THEN -1 ELSE 0

\* unary minus
Neg(x) ==
    CASE x.k = "num" -> Rat(-x.n, x.d)
      [] x.k = "decimal" -> Decimal(-x.n, x.d)
      [] x.k = "timedelta" -> TimeDelta(-x.ticks)
      [] OTHER -> x

\* x + y on floats
Add(x, y) ==
    IF x.k = "nan" \/ y.k = "nan" THEN NaN
    ELSE Rat(x.n * y.d + y.n * x.d, x.d * y.d)

\* x * y on floats; a float times a timedelta is a timedelta
Mul(x, y) ==
    CASE x.k = "nan" \/ y.k = "nan" -> NaN
      [] x.k = "timedelta" -> TimeDelta((x.ticks * y.n) \div y.d)
      [] y.k = "timedelta" -> TimeDelta((y.ticks * x.n) \div x.d)
      [] OTHER -> Rat(x.n * y.n, x.d * y.d)

\* time - time0: datetime - datetime is a timedelta, Decimal - int a Decimal,
\* number - number a number
Minus(time, time0) ==
    CASE time.k = "datetime" -> TimeDelta(time.ticks - time0.ticks)
      [] time.k = "decimal" ->
           Decimal(time.n * time0.d - time0.n * time.d, time.d * time0.d)
      [] OTHER -> Add(time, Neg(time0))

\* timedelta.total_seconds()
SecondsPerTick == 86400 \div TicksPerDay
total_seconds(td) == td.ticks * SecondsPerTick

-----------------------------------------------------------------------------
(* numpy arrays: [k |-> "ndarray", a |-> rows], rows a sequence of          *)
(* equally long sequences of numbers                                        *)

Arr(rows) == [k |-> "ndarray", a |-> rows]
nrow(M) == Len(M.a)
ncol(M) == Len(M.a[1])

\* an array of Python ints as an array of floats
Floats(rows) ==
    Arr([i \in 1..Len(rows) |-> [j \in 1..Len(rows[i]) |-> Num(rows[i][j])]])

eye(n) == Arr([i \in 1..n |-> [j \in 1..n |-> IF i = j THEN Num(1) ELSE Num(0)]])
matrix_of(r, c, x) == Arr([i \in 1..r |-> [j \in 1..c |-> x]])
col_of(n, x) == matrix_of(n, 1, x)

T(M) == Arr([j \in 1..ncol(M) |-> [i \in 1..nrow(M) |-> M.a[i][j]]])

\* M * x and M + N, elementwise
Scale(M, x) == Arr([i \in 1..nrow(M) |-> [j \in 1..ncol(M) |-> Mul(M.a[i][j], x)]])
Plus(M, N) ==
    Arr([i \in 1..nrow(M) |-> [j \in 1..ncol(M) |-> Add(M.a[i][j], N.a[i][j])]])

RECURSIVE DotSum(_, _, _, _, _)
DotSum(A, B, i, j, n) ==
    IF n = 0 THEN Num(0)
    ELSE Add(DotSum(A, B, i, j, n - 1), Mul(A.a[i][n], B.a[n][j]))

\* np.dot of two 2-D arrays
dot(A, B) ==
    Arr([i \in 1..nrow(A) |-> [j \in 1..ncol(B) |-> DotSum(A, B, i, j, ncol(A))]])

Entries(M) == {M.a[i][j] : i \in 1..nrow(M), j \in 1..ncol(M)}

\* npu.to_ndim_2: a scalar becomes a 1 x 1 array, a 2-D array is kept
to_ndim_2(x) == IF x.k = "ndarray" THEN x ELSE Arr(<<<<x>>>>)

\* npu.vec: the columns of M stacked into one column
vec(M) ==
    Arr([p \in 1..(nrow(M) * ncol(M)) |->
            <<M.a[((p - 1) % nrow(M)) + 1][((p - 1) \div nrow(M)) + 1]>>])

\* npu.kron_sum: A (+) B = A (x) I + I (x) B, for square A (n x n) and B (m x m)
kron_sum(A, B) ==
    LET n == nrow(A)
        m == nrow(B)
    IN  Arr([p \in 1..(n * m) |-> [q \in 1..(n * m) |->
            LET i == ((p - 1) \div m) + 1
                ii == ((p - 1) % m) + 1
                j == ((q - 1) \div m) + 1
                jj == ((q - 1) % m) + 1
            IN  Add(IF ii = jj THEN A.a[i][j] ELSE Num(0),
                    IF i = j THEN B.a[ii][jj] ELSE Num(0))]])

\* M without row 1 and column c
Minor(M, c) ==
    Arr([i \in 1..(nrow(M) - 1) |-> [j \in 1..(ncol(M) - 1) |->
            M.a[i + 1][IF j < c THEN j ELSE j + 1]]])

RECURSIVE Det(_)
RECURSIVE DetSum(_, _)
DetSum(M, c) ==
    IF c = 0 THEN Num(0)
    ELSE IF M.a[1][c] = Num(0) THEN DetSum(M, c - 1)
    ELSE Add(DetSum(M, c - 1),
             Mul(Mul(Num(IF c % 2 = 1 THEN 1 ELSE -1), M.a[1][c]), Det(Minor(M, c))))
\* the determinant, by expansion along the first row
Det(M) == IF nrow(M) = 1 THEN M.a[1][1] ELSE DetSum(M, ncol(M))

\* M has only zeros below its diagonal
IsUpper(M) == \A i \in 1..nrow(M) : \A j \in 1..(i - 1) : M.a[i][j] = Num(0)
\* M has no inverse: a zero on the diagonal of an upper triangular matrix,
\* a zero determinant otherwise
Singular(M) ==
    IF IsUpper(M) THEN \E i \in 1..nrow(M) : M.a[i][i] = Num(0)
    ELSE Det(M) = Num(0)

-----------------------------------------------------------------------------
(* Outcomes of a call: a returned value or a raised exception *)

Ok(v) == [status |-> "ok", exc |-> "", value |-> v]
Raise(e) == [status |-> "raise", exc |-> e, value |-> None]

\* np.linalg.inv: LinAlgError on a singular matrix, else the inverse (symbolic)
inv(M) ==
    IF Singular(M) THEN Raise("LinAlgError")
    ELSE Ok([k |-> "inv", of |-> M])

\* scipy.linalg.expm: TypeError on entries that are not floats (the timedelta
\* entries of a float array times a timedelta); otherwise the matrix
\* exponential, kept symbolic
expm(M) ==
    IF \E e \in Entries(M) : ~IsNumber(e) THEN Raise("TypeError")
    ELSE Ok([k |-> "expm", of |-> M])

\* la.expm(M * x): the product of a float array and a Decimal raises TypeError
expm_times(M, x) ==
    IF x.k = "decimal" THEN Raise("TypeError") ELSE expm(Scale(M, x))

\* distrs.NormalDistr and distrs.NormalDistr.create_dirac_delta
NormalDistr(mean, cov) == [k |-> "NormalDistr", mean |-> mean, cov |-> cov]
create_dirac_delta(value) ==
    NormalDistr(value, matrix_of(nrow(value), nrow(value), Num(0)))

-----------------------------------------------------------------------------
(* Objects: one record with every instance field of the hierarchy; a field  *)
(* the class does not set is None                                           *)

Classes == {"SolvedItoProcess", "MarkovProcess", "SolvedItoMarkovProcess",
            "WienerProcess", "OrnsteinUhlenbeckProcess"}
MarkovClasses == Classes \ {"SolvedItoProcess"}
SolvedClasses == Classes \ {"MarkovProcess"}

Blank(cls) ==
    [cls |-> cls,
     _process_dim |-> None, _noise_dim |-> None, _time_unit |-> None,
     _cached_time |-> None, _cached_time0 |-> None,
     _cached_distr0 |-> None, _cached_distr |-> None,
     _mean |-> None, _vol |-> None, _cov |-> None,
     _transition |-> None, _transition_x_2 |-> None,
     _transition_x_2_inverse |-> None, _cov_vec |-> None,
     _cached_mean_reversion_factor |-> None,
     _cached_mean_reversion_factor_time_delta |-> None,
     _cached_mean_reversion_factor_squared |-> None,
     _cached_mean_reversion_factor_squared_time_delta |-> None]

\* ItoProcess.__init__: process_dim and noise_dim (None: process_dim); the
\* dimensions are Python ints, held as Num(n)
ItoProcess_init(o, process_dim, noise_dim) ==
    [o EXCEPT !._process_dim = process_dim,
              !._noise_dim = IF noise_dim = None THEN process_dim ELSE noise_dim]

\* MarkovProcess.__init__: the time unit (one day) and the empty cache
MarkovProcess_init(o, process_dim) ==
    [o EXCEPT !._process_dim = process_dim,
              !._time_unit = TimeDelta(TicksPerDay),
              !._cached_time = None, !._cached_time0 = None,
              !._cached_distr0 = None, !._cached_distr = None]

\* SolvedItoMarkovProcess.__init__: MarkovProcess.__init__, then along the
\* method resolution order SolvedItoProcess.__init__ and ItoProcess.__init__
SolvedItoMarkovProcess_init(o, process_dim, noise_dim) ==
    ItoProcess_init(MarkovProcess_init(o, process_dim), process_dim, noise_dim)

\* npc.check_col, npc.check_nrow, npc.check_square
check_col(M) == ncol(M) = 1
check_nrow(M, n) == nrow(M) = n
check_square(M) == nrow(M) = ncol(M)

Constructed(o) == [out |-> Ok(None), self |-> o]
Failed(e) == [out |-> Raise(e), self |-> None]

\* shape checks that leave out the row count of mean
wiener_checks_no_mean_rows(m, v, process_dim) ==
    check_col(m) /\ check_nrow(v, process_dim)

\* the shape checks of WienerProcess.__init__
wiener_checks(m, v, process_dim) ==
    check_col(m) /\ check_nrow(m, process_dim) /\ check_nrow(v, process_dim)

\* WienerProcess.__init__(mean, vol)
WienerProcess_init(mean_arg, vol_arg) ==
    LET both == mean_arg = None /\ vol_arg = None
        mean == IF both THEN Num(0) ELSE mean_arg
        vol == IF both THEN Num(1) ELSE vol_arg
        m0 == IF mean # None THEN to_ndim_2(mean) ELSE None
        v0 == IF vol # None THEN to_ndim_2(vol) ELSE None
        process_dim == IF vol # None THEN nrow(v0) ELSE nrow(m0)
        m == IF m0 = None THEN col_of(process_dim, Num(0)) ELSE m0
        v == IF v0 = None THEN eye(process_dim) ELSE v0
    IN  IF ~wiener_checks(m, v, process_dim)
        THEN Failed("ConfigurationError")
        ELSE Constructed(
               SolvedItoMarkovProcess_init(
                 [Blank("WienerProcess") EXCEPT !._mean = m, !._vol = v,
                                                !._cov = dot(v, T(v))],
                 Num(process_dim), Num(ncol(v))))

\* the shape checks of OrnsteinUhlenbeckProcess.__init__
ou_checks(t, m, v, process_dim) ==
    /\ check_square(t) /\ check_nrow(t, process_dim)
    /\ check_col(m) /\ check_nrow(m, process_dim)
    /\ check_nrow(v, process_dim)

\* OrnsteinUhlenbeckProcess.__init__(transition, mean, vol)
OrnsteinUhlenbeckProcess_init(transition_arg, mean_arg, vol_arg) ==
    LET all == transition_arg = None /\ mean_arg = None /\ vol_arg = None
        transition == IF all THEN Num(1) ELSE transition_arg
        mean == IF all THEN Num(0) ELSE mean_arg
        vol == IF all THEN Num(1) ELSE vol_arg
        t0 == IF transition # None THEN to_ndim_2(transition) ELSE None
        m0 == IF mean # None THEN to_ndim_2(mean) ELSE None
        v0 == IF vol # None THEN to_ndim_2(vol) ELSE None
        process_dim == IF vol # None THEN nrow(v0)
                       ELSE IF mean # None THEN nrow(m0) ELSE nrow(t0)
        t == IF t0 = None THEN eye(process_dim) ELSE t0
        m == IF m0 = None THEN col_of(process_dim, Num(0)) ELSE m0
        v == IF v0 = None THEN eye(process_dim) ELSE v0
    IN  IF ~ou_checks(t, m, v, process_dim)
        THEN Failed("ConfigurationError")
        ELSE LET x2 == kron_sum(t, t)
                 x2inv == inv(x2)
                 cov == dot(v, T(v))
             IN  IF x2inv.status = "raise" THEN Failed(x2inv.exc)
                 ELSE Constructed(
                        SolvedItoMarkovProcess_init(
                          [Blank("OrnsteinUhlenbeckProcess") EXCEPT
                             !._transition = t, !._mean = m, !._vol = v,
                             !._transition_x_2 = x2,
                             !._transition_x_2_inverse = x2inv.value,
                             !._cov = cov, !._cov_vec = vec(cov),
                             !._cached_mean_reversion_factor = None,
                             !._cached_mean_reversion_factor_time_delta = None,
                             !._cached_mean_reversion_factor_squared = None,
                             !._cached_mean_reversion_factor_squared_time_delta = None],
                          Num(process_dim), Num(ncol(v))))

\* SolvedItoProcess(process_dim, noise_dim), MarkovProcess(process_dim) and
\* SolvedItoMarkovProcess(process_dim, noise_dim), which validate nothing
Generic_init(cls, process_dim, noise_dim) ==
    Constructed(
      CASE cls = "SolvedItoProcess" ->
             ItoProcess_init(Blank(cls), process_dim, noise_dim)
        [] cls = "MarkovProcess" ->
             MarkovProcess_init(Blank(cls), process_dim)
        [] OTHER ->
             SolvedItoMarkovProcess_init(Blank(cls), process_dim, noise_dim))

-----------------------------------------------------------------------------
(* Methods. Each is an operator from the object and the arguments to        *)
(* [self |-> the object afterwards, out |-> the outcome]; propagate_distr   *)
(* also counts its invocations of _propagate_distr_impl in n.               *)

Result(o, out) == [self |-> o, out |-> out]

\* the memo after its key was set to time_delta (in o1) and expm gave e: the
\* value is stored only when expm returned
memo_factor(o1, e) ==
    IF e.status = "raise" THEN Result(o1, e)
    ELSE Result([o1 EXCEPT !._cached_mean_reversion_factor = e.value], e)

memo_factor_squared(o1, e) ==
    IF e.status = "raise" THEN Result(o1, e)
    ELSE Result([o1 EXCEPT !._cached_mean_reversion_factor_squared = e.value], e)

\* OrnsteinUhlenbeckProcess.mean_reversion_factor
mean_reversion_factor(o, time_delta) ==
    IF \/ o._cached_mean_reversion_factor_time_delta = None
       \/ o._cached_mean_reversion_factor_time_delta # time_delta
    THEN memo_factor(
           [o EXCEPT !._cached_mean_reversion_factor_time_delta = time_delta],
           expm_times(o._transition, Neg(time_delta)))
    ELSE Result(o, Ok(o._cached_mean_reversion_factor))

\* OrnsteinUhlenbeckProcess.mean_reversion_factor_squared
mean_reversion_factor_squared(o, time_delta) ==
    IF \/ o._cached_mean_reversion_factor_squared_time_delta = None
       \/ o._cached_mean_reversion_factor_squared_time_delta # time_delta
    THEN memo_factor_squared(
           [o EXCEPT !._cached_mean_reversion_factor_squared_time_delta = time_delta],
           expm_times(o._transition_x_2, Neg(time_delta)))
    ELSE Result(o, Ok(o._cached_mean_reversion_factor_squared))

\* np.eye(n) - x: TypeError when x is None, else the difference (symbolic)
eye_minus(n, x) ==
    IF x = None THEN Raise("TypeError")
    ELSE Ok([k |-> "eye_minus", of |-> x])

\* noise_covariance after its call of mean_reversion_factor_squared returned r
noise_covariance_of(o, r, eyeminusmrfsquared) ==
    IF r.out.status = "raise" THEN r
    ELSE IF eyeminusmrfsquared.status = "raise"
    THEN Result(r.self, eyeminusmrfsquared)
    ELSE Result(r.self,
                Ok([k |-> "noise_covariance",
                    inverse |-> o._transition_x_2_inverse,
                    eyeminusmrfsquared |-> eyeminusmrfsquared.value,
                    cov_vec |-> o._cov_vec]))

noise_covariance_after(o, r) ==
    noise_covariance_of(o, r, eye_minus(o._process_dim.n, r.out.value))

\* OrnsteinUhlenbeckProcess.noise_covariance
noise_covariance(o, time_delta) ==
    noise_covariance_after(o, mean_reversion_factor_squared(o, time_delta))

\* m = np.dot(mrf, value0) + np.dot(eyeminusmrf, self._mean), symbolic in mrf
ou_mean(mrf, eyeminusmrf, value0, mean) ==
    [k |-> "ou_mean", mrf |-> mrf, value0 |-> value0,
     eyeminusmrf |-> eyeminusmrf, mean |-> mean]

\* _propagate_distr_impl after noise_covariance returned r2
ou_distr_of(o, distr0, mrf, eyeminusmrf, r2) ==
    IF r2.out.status = "raise" THEN r2
    ELSE Result(r2.self,
                Ok(NormalDistr(
                     ou_mean(mrf, eyeminusmrf, distr0.mean, o._mean),
                     [k |-> "ou_cov", mrf |-> mrf, cov0 |-> distr0.cov,
                      noise_covariance |-> r2.out.value])))

\* _propagate_distr_impl after np.eye(self.process_dim) - mrf
ou_distr_after_eye(o, time_delta, distr0, r1, eyeminusmrf) ==
    IF eyeminusmrf.status = "raise" THEN Result(r1.self, eyeminusmrf)
    ELSE ou_distr_of(o, distr0, r1.out.value, eyeminusmrf.value,
                     noise_covariance(r1.self, time_delta))

\* _propagate_distr_impl after mean_reversion_factor returned r1
ou_distr_after_mrf(o, time_delta, distr0, r1) ==
    IF r1.out.status = "raise" THEN r1
    ELSE ou_distr_after_eye(o, time_delta, distr0, r1,
                            eye_minus(o._process_dim.n, r1.out.value))

\* OrnsteinUhlenbeckProcess._propagate_distr_impl
OrnsteinUhlenbeckProcess_propagate_distr_impl(o, time_delta, distr0) ==
    ou_distr_after_mrf(o, time_delta, distr0, mean_reversion_factor(o, time_delta))

\* WienerProcess._propagate_distr_impl (self._mean * time_delta raises
\* TypeError for a Decimal time_delta)
WienerProcess_propagate_distr_impl(o, time_delta, distr0) ==
    IF time_delta.k = "decimal" THEN Result(o, Raise("TypeError"))
    ELSE Result(o, Ok(NormalDistr(Plus(distr0.mean, Scale(o._mean, time_delta)),
                                  Plus(distr0.cov, Scale(o._cov, time_delta)))))

\* MarkovProcess._propagate_distr_impl
MarkovProcess_propagate_distr_impl(o, time_delta, distr0) ==
    Result(o, Raise("NotImplementedError"))

\* self._propagate_distr_impl, resolved on the class of the object
propagate_distr_impl(o, time_delta, distr0) ==
    CASE o.cls = "WienerProcess" ->
           WienerProcess_propagate_distr_impl(o, time_delta, distr0)
      [] o.cls = "OrnsteinUhlenbeckProcess" ->
           OrnsteinUhlenbeckProcess_propagate_distr_impl(o, time_delta, distr0)
      [] OTHER -> MarkovProcess_propagate_distr_impl(o, time_delta, distr0)

\* an elapsed step in seconds, not in time units
elapsed_seconds(o, time, time0) ==
    IF Minus(time, time0).k = "timedelta"
    THEN Num(total_seconds(Minus(time, time0)))
    ELSE Minus(time, time0)

\* the elapsed step of propagate_distr: time - time0, a timedelta converted
\* to the number of time units
elapsed(o, time, time0) ==
    LET time_delta == Minus(time, time0)
    IN  IF time_delta.k = "timedelta"
        THEN Rat(total_seconds(time_delta), total_seconds(o._time_unit))
        ELSE time_delta

\* a cache that compares its key by identity: the argument objects of a new
\* call are never the cached ones
cache_miss_identity(o, time, time0, distr0) == TRUE

\* a cache that does not compare the prior distribution
cache_miss_no_distr0(o, time, time0, distr0) ==
    \/ o._cached_time = None
    \/ o._cached_time # time
    \/ o._cached_time0 # time0

\* the condition under which propagate_distr recomputes
cache_miss(o, time, time0, distr0) ==
    \/ o._cached_time = None
    \/ o._cached_time # time
    \/ o._cached_time0 # time0
    \/ o._cached_distr0 # distr0

\* the cache fields after a computation that returned distr
cache_store(o, time, time0, distr0, distr) ==
    [o EXCEPT !._cached_distr = distr, !._cached_time = time,
              !._cached_time0 = time0, !._cached_distr0 = distr0]

\* propagate_distr after _propagate_distr_impl returned r: the result is stored
\* with its key and self._cached_distr is returned; an exception leaves the
\* cache fields as they were
propagate_distr_store(time, time0, distr0, r) ==
    IF r.out.status = "raise"
    THEN [self |-> r.self, out |-> r.out, n |-> 1]
    ELSE [self |-> cache_store(r.self, time, time0, distr0, r.out.value),
          out |-> Ok(r.out.value), n |-> 1]

\* propagate_distr without the return on time == time0
propagate_distr_no_shortcut(o, time, time0, distr0) ==
    IF cache_miss(o, time, time0, distr0)
    THEN propagate_distr_store(time, time0, distr0,
           propagate_distr_impl(o, elapsed(o, time, time0), distr0))
    ELSE [self |-> o, out |-> Ok(o._cached_distr), n |-> 0]

\* MarkovProcess.propagate_distr
propagate_distr(o, time, time0, distr0) ==
    IF time = time0 THEN [self |-> o, out |-> Ok(distr0), n |-> 0]
    ELSE IF cache_miss(o, time, time0, distr0)
    THEN propagate_distr_store(time, time0, distr0,
           propagate_distr_impl(o, elapsed(o, time, time0), distr0))
    ELSE [self |-> o, out |-> Ok(o._cached_distr), n |-> 0]

\* np.linalg.cholesky: LinAlgError unless the matrix is positive definite. The
\* sign of a 1 x 1 noise covariance K^-1 (1 - exp(M)) cov is decided from the
\* signs of K, M and cov, an array without a positive diagonal entry is
\* rejected, and any other factor is kept symbolic
cholesky(c) ==
    IF c.k = "noise_covariance" /\ nrow(c.cov_vec) = 1
    THEN LET x2 == c.inverse.of.a[1][1]
             M == c.eyeminusmrfsquared.of.of.a[1][1]
             v == c.cov_vec.a[1][1]
         IN  IF Sgn(x2) * (-Sgn(M)) * Sgn(v) > 0
             THEN Ok([k |-> "cholesky", of |-> c])
             ELSE Raise("LinAlgError")
    ELSE IF c.k = "ndarray" /\ \A i \in 1..nrow(c) : Sgn(c.a[i][i]) <= 0
    THEN Raise("LinAlgError")
    ELSE Ok([k |-> "cholesky", of |-> c])

IsZero(M) == \A e \in Entries(M) : e = Num(0)

\* m + np.dot(L, variate) for a symbolic (finite) L
sample(m, L, variate) ==
    IF IsZero(variate) THEN m
    ELSE [k |-> "sample", mean |-> m, factor |-> L, variate |-> variate]

\* np.sqrt: TypeError on a timedelta, nan below zero, exact on a square of a
\* rational, symbolic otherwise
sqrt(x) ==
    CASE x.k = "timedelta" -> Raise("TypeError")
      [] x.k = "nan" -> Ok(NaN)
      [] x.n < 0 -> Ok(NaN)
      [] \E p \in 0..x.n, q \in 1..x.d : p * p = x.n /\ q * q = x.d ->
           Ok(Rat(CHOOSE p \in 0..x.n : p * p = x.n,
                  CHOOSE q \in 1..x.d : q * q = x.d))
      [] OTHER -> Ok([k |-> "sqrt", of |-> x])

\* np.dot(self._vol, np.sqrt(time_delta) * variate) for a root that did not raise
wiener_noise(vol, root, variate) ==
    IF IsNumber(root) THEN dot(vol, Scale(variate, root))
    ELSE IF IsZero(variate) THEN dot(vol, variate)
    ELSE [k |-> "noise", vol |-> vol, root |-> root, variate |-> variate]

\* SolvedItoProcess.propagate
SolvedItoProcess_propagate(o, time, variate, time0, value0) ==
    [self |-> o, out |-> Raise("NotImplementedError"), n |-> 0]

\* the sample distr.mean + np.dot(np.linalg.cholesky(distr.cov), variate)
draw(r, mean, L, variate) ==
    IF L.status = "raise" THEN [self |-> r.self, out |-> L, n |-> r.n]
    ELSE [self |-> r.self, out |-> Ok(sample(mean, L.value, variate)), n |-> r.n]

\* SolvedItoMarkovProcess.propagate after propagate_distr returned r
propagate_after_distr(r, variate) ==
    IF r.out.status = "raise" THEN r
    ELSE draw(r, r.out.value.mean, cholesky(r.out.value.cov), variate)

\* propagate with the test of time == time0 before the test of the dimensions
SolvedItoMarkovProcess_propagate_time_first(o, time, variate, time0, value0) ==
    IF time = time0
    THEN [self |-> o, out |-> Ok(to_ndim_2(value0)), n |-> 0]
    ELSE IF o._noise_dim # o._process_dim
    THEN [self |-> o, out |-> Raise("NotImplementedError"), n |-> 0]
    ELSE propagate_after_distr(
           propagate_distr(o, time, time0, create_dirac_delta(to_ndim_2(value0))),
           to_ndim_2(variate))

\* SolvedItoMarkovProcess.propagate
SolvedItoMarkovProcess_propagate(o, time, variate, time0, value0) ==
    IF o._noise_dim # o._process_dim
    THEN [self |-> o, out |-> Raise("NotImplementedError"), n |-> 0]
    ELSE IF time = time0
    THEN [self |-> o, out |-> Ok(to_ndim_2(value0)), n |-> 0]
    ELSE propagate_after_distr(
           propagate_distr(o, time, time0, create_dirac_delta(to_ndim_2(value0))),
           to_ndim_2(variate))

\* value0 + self._mean * time_delta + noise
wiener_sum(drifted, noise) ==
    IF noise.k = "ndarray" THEN Plus(drifted, noise)
    ELSE [k |-> "sum", a |-> drifted, b |-> noise]

\* WienerProcess.propagate after np.sqrt(time_delta) gave root
wiener_after_sqrt(o, time_delta, variate, value0, root) ==
    IF time_delta.k \in {"timedelta", "decimal"} \/ root.status = "raise"
    THEN [self |-> o, out |-> Raise("TypeError"), n |-> 0]
    ELSE [self |-> o,
          out |-> Ok(wiener_sum(Plus(value0, Scale(o._mean, time_delta)),
                                wiener_noise(o._vol, root.value, variate))),
          n |-> 0]

\* propagate without the return on time == time0
WienerProcess_propagate_no_shortcut(o, time, variate, time0, value0) ==
    wiener_after_sqrt(o, Minus(time, time0), to_ndim_2(variate),
                      to_ndim_2(value0), sqrt(Minus(time, time0)))

\* WienerProcess.propagate
WienerProcess_propagate(o, time, variate, time0, value0) ==
    IF time = time0
    THEN [self |-> o, out |-> Ok(to_ndim_2(value0)), n |-> 0]
    ELSE wiener_after_sqrt(o, Minus(time, time0), to_ndim_2(variate),
                           to_ndim_2(value0), sqrt(Minus(time, time0)))

\* OrnsteinUhlenbeckProcess.propagate after noise_covariance returned r2
ou_draw(m, variate, r2) ==
    IF r2.out.status = "raise" THEN [self |-> r2.self, out |-> r2.out, n |-> 0]
    ELSE draw([self |-> r2.self, n |-> 0], m, cholesky(r2.out.value), variate)

\* OrnsteinUhlenbeckProcess.propagate after np.eye(self.process_dim) - mrf
ou_propagate_after_eye(o, time_delta, variate, value0, r1, eyeminusmrf) ==
    IF eyeminusmrf.status = "raise"
    THEN [self |-> r1.self, out |-> eyeminusmrf, n |-> 0]
    ELSE ou_draw(ou_mean(r1.out.value, eyeminusmrf.value, value0, o._mean),
                 variate, noise_covariance(r1.self, time_delta))

\* OrnsteinUhlenbeckProcess.propagate after mean_reversion_factor returned r1
ou_propagate_after_mrf(o, time_delta, variate, value0, r1) ==
    IF r1.out.status = "raise" THEN [self |-> r1.self, out |-> r1.out, n |-> 0]
    ELSE ou_propagate_after_eye(o, time_delta, variate, value0, r1,
                                eye_minus(o._process_dim.n, r1.out.value))

\* OrnsteinUhlenbeckProcess.propagate
OrnsteinUhlenbeckProcess_propagate(o, time, variate, time0, value0) ==
    IF time = time0
    THEN [self |-> o, out |-> Ok(to_ndim_2(value0)), n |-> 0]
    ELSE ou_propagate_after_mrf(o, Minus(time, time0), to_ndim_2(variate),
                                to_ndim_2(value0),
                                mean_reversion_factor(o, Minus(time, time0)))

\* self.propagate, resolved on the class of the object
propagate(o, time, variate, time0, value0) ==
    CASE o.cls = "SolvedItoProcess" ->
           SolvedItoProcess_propagate(o, time, variate, time0, value0)
      [] o.cls = "SolvedItoMarkovProcess" ->
           SolvedItoMarkovProcess_propagate(o, time, variate, time0, value0)
      [] o.cls = "WienerProcess" ->
           WienerProcess_propagate(o, time, variate, time0, value0)
      [] OTHER ->
           OrnsteinUhlenbeckProcess_propagate(o, time, variate, time0, value0)

-----------------------------------------------------------------------------
(* Inputs *)

NumTimes == {Num(i) : i \in 0..MaxTime}
DateTimes == {DateTime(0), DateTime(1)}
\* a pair of time coordinates is two numbers or two datetimes
TimePairs == (NumTimes \X NumTimes) \cup (DateTimes \X DateTimes)
\* a decimal.Decimal coordinate (2.5): a plain number, not a duration, whose
\* difference to an int is a Decimal
BadTimes == {Decimal(5, 2)}
RefTimePairs == TimePairs \cup (BadTimes \X NumTimes)
\* the elapsed steps the methods of the Ornstein-Uhlenbeck process are called
\* with: numbers, and the timedelta that propagate passes on unconverted
TimeDeltas ==
    {Minus(tt[1], tt[2]) : tt \in {p \in TimePairs : p[1] # p[2]}}
        \cup {Rat(i, TicksPerDay) : i \in {-1, 1}}

\* value0: a column of the process dimension, or a bare float in dimension 1
Values(d) == {col_of(d, Num(1))}
                 \cup (IF d = 1 THEN {Num(2)} ELSE {col_of(d, Num(0))})
Variates(n) == {col_of(n, Num(0)), col_of(n, Num(1))}
Distrs(d) == {create_dirac_delta(col_of(d, Num(1))),
              NormalDistr(col_of(d, Num(0)), eye(d))}

\* the last call: the method, its arguments, and an id that tells a call from
\* the one before it (two consecutive calls with equal arguments are two calls)
NoCall == [op |-> "none", id |-> 0, time |-> None, time0 |-> None, distr0 |-> None,
           variate |-> None, value0 |-> None, time_delta |-> None,
           transition |-> None, mean |-> None, vol |-> None]

\* the processes a run starts from, each built by its constructor
InitObjects ==
    {r.self : r \in
       {Generic_init("SolvedItoProcess", Num(1), None),
        Generic_init("MarkovProcess", Num(1), None),
        Generic_init("SolvedItoMarkovProcess", Num(1), None),
        Generic_init("SolvedItoMarkovProcess", Num(1), Num(2)),
        WienerProcess_init(Num(2), Num(3)),
        WienerProcess_init(Floats(<<<<1>>, <<2>>>>), Floats(<<<<1, 0>>, <<1, 1>>>>)),
        OrnsteinUhlenbeckProcess_init(None, None, None)}}

Init ==
    /\ self \in InitObjects
    /\ call = [NoCall EXCEPT !.op = "__init__"]
    /\ ret = Ok(None)
    /\ nimpl = 0
    /\ ref = None

\* a call of propagate_distr(time, time0, distr0)
CallPropagateDistr ==
    /\ self.cls \in MarkovClasses
    /\ \E tt \in TimePairs, distr0 \in Distrs(self._process_dim.n) :
         \E r \in {propagate_distr(self, tt[1], tt[2], distr0)} :
             /\ self' = r.self
             /\ ret' = r.out
             /\ nimpl' = r.n
             /\ call' = [NoCall EXCEPT !.op = "propagate_distr", !.id = 1 - call.id,
                                       !.time = tt[1],
                                       !.time0 = tt[2], !.distr0 = distr0]
    /\ UNCHANGED ref

\* a call of propagate(time, variate, time0, value0)
CallPropagate ==
    /\ self.cls \in SolvedClasses
    /\ \E tt \in TimePairs, value0 \in Values(self._process_dim.n),
          variate \in Variates(self._noise_dim.n) :
         \E r \in {propagate(self, tt[1], variate, tt[2], value0)} :
             /\ self' = r.self
             /\ ret' = r.out
             /\ nimpl' = r.n
             /\ call' = [NoCall EXCEPT !.op = "propagate", !.id = 1 - call.id,
                                       !.time = tt[1],
                                       !.time0 = tt[2], !.value0 = value0,
                                       !.variate = variate]
    /\ UNCHANGED ref

Next == CallPropagateDistr \/ CallPropagate

Spec == Init /\ [][Next]_vars

-----------------------------------------------------------------------------
(* The Ornstein-Uhlenbeck process with its memoized methods called directly *)

InitOU ==
    /\ self = OrnsteinUhlenbeckProcess_init(None, None, None).self
    /\ call = [NoCall EXCEPT !.op = "__init__"]
    /\ ret = Ok(None)
    /\ nimpl = 0
    /\ ref = None

\* a call of mean_reversion_factor(time_delta)
CallMeanReversionFactor ==
    /\ \E time_delta \in TimeDeltas :
         \E r \in {mean_reversion_factor(self, time_delta)} :
             /\ self' = r.self
             /\ ret' = r.out
             /\ call' = [NoCall EXCEPT !.op = "mean_reversion_factor", !.id = 1 - call.id,
                                       !.time_delta = time_delta]
    /\ nimpl' = 0
    /\ UNCHANGED ref

\* a call of mean_reversion_factor_squared(time_delta)
CallMeanReversionFactorSquared ==
    /\ \E time_delta \in TimeDeltas :
         \E r \in {mean_reversion_factor_squared(self, time_delta)} :
             /\ self' = r.self
             /\ ret' = r.out
             /\ call' = [NoCall EXCEPT !.op = "mean_reversion_factor_squared", !.id = 1 - call.id,
                                       !.time_delta = time_delta]
    /\ nimpl' = 0
    /\ UNCHANGED ref

\* a call of noise_covariance(time_delta)
CallNoiseCovariance ==
    /\ \E time_delta \in TimeDeltas :
         \E r \in {noise_covariance(self, time_delta)} :
             /\ self' = r.self
             /\ ret' = r.out
             /\ call' = [NoCall EXCEPT !.op = "noise_covariance", !.id = 1 - call.id,
                                       !.time_delta = time_delta]
    /\ nimpl' = 0
    /\ UNCHANGED ref

NextOU ==
    \/ CallPropagateDistr
    \/ CallPropagate
    \/ CallMeanReversionFactor
    \/ CallMeanReversionFactorSquared
    \/ CallNoiseCovariance

SpecOU == InitOU /\ [][NextOU]_vars

-----------------------------------------------------------------------------
(* The cached process beside a reference process without the distribution   *)
(* cache: ref is the reference object and the outcome of its last call      *)

\* propagate_distr without the cache: _propagate_distr_impl on every call
uncached_propagate_distr(o, time, time0, distr0) ==
    IF time = time0 THEN Result(o, Ok(distr0))
    ELSE propagate_distr_impl(o, elapsed(o, time, time0), distr0)

InitRef ==
    /\ self \in {o \in InitObjects : o.cls \in MarkovClasses}
    /\ call = [NoCall EXCEPT !.op = "__init__"]
    /\ ret = Ok(None)
    /\ nimpl = 0
    /\ ref = Result(self, Ok(None))

\* the same call of propagate_distr on the process and on the reference
CallPropagateDistrBoth ==
    \E tt \in RefTimePairs, distr0 \in Distrs(self._process_dim.n) :
      \E r \in {propagate_distr(self, tt[1], tt[2], distr0)} :
        /\ self' = r.self
        /\ ret' = r.out
        /\ nimpl' = r.n
        /\ call' = [NoCall EXCEPT !.op = "propagate_distr", !.id = 1 - call.id,
                                  !.time = tt[1],
                                  !.time0 = tt[2], !.distr0 = distr0]
        /\ ref' = uncached_propagate_distr(ref.self, tt[1], tt[2], distr0)

NextRef == CallPropagateDistrBoth

SpecRef == InitRef /\ [][NextRef]_vars

-----------------------------------------------------------------------------
(* Construction: no object exists until a constructor has returned *)

\* the largest row count among the constructor arguments
MaxDim == 3

\* a d x c array with entries 1 on and below the diagonal
Lower(d, c) == Arr([i \in 1..d |-> [j \in 1..c |-> IF j <= i THEN Num(1) ELSE Num(0)]])
\* the diagonal matrix diag(1, 2, ..., d), and diag(1, -1, 1, ...) whose
\* Kronecker sum with itself is singular
Diag(d) == Arr([i \in 1..d |-> [j \in 1..d |-> IF i = j THEN Num(i) ELSE Num(0)]])
DiagPM(d) ==
    Arr([i \in 1..d |-> [j \in 1..d |->
           IF i = j THEN Num(IF i % 2 = 1 THEN 1 ELSE -1) ELSE Num(0)]])

MeanArgs ==
    {None, Num(0), matrix_of(1, 2, Num(1))}
        \cup {col_of(d, Num(1)) : d \in 2..MaxDim}
VolArgs ==
    {None, Num(1)} \cup {Lower(d, d) : d \in 2..MaxDim}
        \cup {Lower(d, 1) : d \in 2..MaxDim}
TransitionArgs ==
    {None, Num(1), Num(0), matrix_of(1, 2, Num(1)), Lower(2, 2),
     matrix_of(2, 2, Num(1))}
        \cup {Diag(d) : d \in 2..MaxDim} \cup {DiagPM(d) : d \in 2..MaxDim}

InitNew ==
    /\ self = None
    /\ call = NoCall
    /\ ret = Ok(None)
    /\ nimpl = 0
    /\ ref = None

\* WienerProcess(mean, vol)
NewWienerProcess ==
    /\ call.op = "none"
    /\ \E mean \in MeanArgs, vol \in VolArgs :
         \E r \in {WienerProcess_init(mean, vol)} :
             /\ self' = r.self
             /\ ret' = r.out
             /\ call' = [NoCall EXCEPT !.op = "WienerProcess",
                                       !.mean = mean, !.vol = vol]
    /\ UNCHANGED <<nimpl, ref>>

\* OrnsteinUhlenbeckProcess(transition, mean, vol)
NewOrnsteinUhlenbeckProcess ==
    /\ call.op = "none"
    /\ \E transition \in TransitionArgs, mean \in MeanArgs, vol \in VolArgs :
         \E r \in {OrnsteinUhlenbeckProcess_init(transition, mean, vol)} :
             /\ self' = r.self
             /\ ret' = r.out
             /\ call' = [NoCall EXCEPT !.op = "OrnsteinUhlenbeckProcess",
                                       !.transition = transition,
                                       !.mean = mean, !.vol = vol]
    /\ UNCHANGED <<nimpl, ref>>

NextNew == NewWienerProcess \/ NewOrnsteinUhlenbeckProcess

SpecNew == InitNew /\ [][NextNew]_vars

-----------------------------------------------------------------------------
(* Properties *)

NotImplemented == Raise("NotImplementedError")
IsDistrCall(c) == c.op = "propagate_distr"
SameTriple(c, d) == c.time = d.time /\ c.time0 = d.time0 /\ c.distr0 = d.distr0
CacheFields(o) ==
    <<o._cached_time, o._cached_time0, o._cached_distr0, o._cached_distr>>

\* C1: a propagate_distr call with time != time0 that comes immediately after
\* a successful propagate_distr call with a value-equal (time, time0, distr0)
\* does not invoke _propagate_distr_impl and returns what the first returned.
C1_RepeatIsHit ==
    [][(/\ IsDistrCall(call) /\ ret.status = "ok"
        /\ IsDistrCall(call') /\ SameTriple(call, call')
        /\ call'.time # call'.time0)
       => (nimpl' = 0 /\ ret' = ret)]_vars

\* C1 witness: a propagate_distr call with time != time0 was answered from the
\* cache.
C1_Witness ==
    /\ IsDistrCall(call) /\ call.time # call.time0
    /\ ret.status = "ok" /\ nimpl = 0
    /\ SameTriple(call, [time |-> self._cached_time, time0 |-> self._cached_time0,
                         distr0 |-> self._cached_distr0])

\* the triple of the call c differs from the cached triple of o
Differs(o, c) ==
    \/ o._cached_time # c.time
    \/ o._cached_time0 # c.time0
    \/ o._cached_distr0 # c.distr0

C3_EqualTimesIdentity ==
    [][(IsDistrCall(call') /\ call'.time = call'.time0)
       => (ret' = Ok(call'.distr0) /\ nimpl' = 0 /\ self' = self)]_vars

\* C3 witness: propagate_distr with time == time0 was called on a filled cache
\* whose prior distribution is another one than the argument.
C3_Witness ==
    /\ IsDistrCall(call) /\ call.time = call.time0
    /\ self._cached_time # None
    /\ self._cached_distr0 # call.distr0
    /\ ret = Ok(call.distr0)

\* the classes whose propagate has the early return on time == time0
HasPropagate == {"SolvedItoMarkovProcess", "WienerProcess", "OrnsteinUhlenbeckProcess"}

\* C4 as stated: on any of these processes propagate(t, v, t, v0) returns a
\* value equal to v0 and raises nothing.
C4_Original ==
    (call.op = "propagate" /\ call.time = call.time0 /\ self.cls \in HasPropagate)
        => ret = Ok(to_ndim_2(call.value0))

\* C4: on a WienerProcess, an OrnsteinUhlenbeckProcess and a generic
\* SolvedItoMarkovProcess whose noise_dim equals its process_dim,
\* propagate(t, v, t, v0) returns a value equal to v0 and raises nothing; on a
\* generic SolvedItoMarkovProcess whose noise_dim differs it raises
\* NotImplementedError.
C4_Amended ==
    (call.op = "propagate" /\ call.time = call.time0 /\ self.cls \in HasPropagate)
        => IF self.cls = "SolvedItoMarkovProcess" /\ self._noise_dim # self._process_dim
           THEN ret = NotImplemented
           ELSE ret = Ok(to_ndim_2(call.value0))

\* C4 witness: propagate with time == time0 and a variate that is not zero has
\* returned on a Wiener process.
C4_Witness ==
    /\ call.op = "propagate" /\ call.time = call.time0
    /\ self.cls = "WienerProcess"
    /\ ~IsZero(call.variate)
    /\ ret = Ok(to_ndim_2(call.value0))

\* the elapsed step as the specification states it: raw / time_unit for a
\* duration, raw itself for a number
StatedStep(time, time0) ==
    IF time.k = "datetime"
    THEN Rat(time.ticks - time0.ticks, TicksPerDay)
    ELSE Minus(time, time0)

\* C5: on a Wiener process with drift mu and cov = vol vol^T,
\* propagate_distr(time, time0, (m0, C0)) with time != time0 returns
\* (m0 + mu dt, C0 + dt cov) for the stated elapsed step dt.
C5_WienerClosedForm ==
    (IsDistrCall(call) /\ self.cls = "WienerProcess" /\ call.time # call.time0)
        => ret = Ok(NormalDistr(
                      Plus(call.distr0.mean,
                           Scale(self._mean, StatedStep(call.time, call.time0))),
                      Plus(call.distr0.cov,
                           Scale(dot(self._vol, T(self._vol)),
                                 StatedStep(call.time, call.time0)))))

\* C5 witness: a Wiener process has propagated a distribution over a step
\* given by two datetimes.
C5_Witness ==
    /\ IsDistrCall(call) /\ self.cls = "WienerProcess"
    /\ call.time.k = "datetime" /\ call.time # call.time0
    /\ ret.status = "ok"

\* the arguments of a constructor call that were supplied, as 2-D arrays
Supplied(c) == {to_ndim_2(x) : x \in {c.transition, c.mean, c.vol} \ {None}}
Mismatch(c) ==
    \/ \E x, y \in Supplied(c) : nrow(x) # nrow(y)
    \/ c.transition # None /\ nrow(to_ndim_2(c.transition)) # ncol(to_ndim_2(c.transition))
IsConstruction(c) == c.op \in {"WienerProcess", "OrnsteinUhlenbeckProcess"}

\* C6: a construction whose supplied transition, mean and vol do not all have
\* the same row count, or whose transition is not square, fails with a
\* configuration error and leaves no object; a construction that succeeds has
\* process_dim equal to the row count of every supplied argument and noise_dim
\* equal to the column count of vol.
C6_Construction ==
    IsConstruction(call) =>
        /\ Mismatch(call) => (ret = Raise("ConfigurationError") /\ self = None)
        /\ ret.status = "ok" =>
             /\ \A x \in Supplied(call) : nrow(x) = self._process_dim.n
             /\ self._noise_dim.n = ncol(self._vol)
             /\ call.vol # None => self._vol = to_ndim_2(call.vol)

\* C6 witness: WienerProcess was called with a mean of 2 rows and a vol of 3
\* rows and failed.
C6_Witness ==
    /\ call.op = "WienerProcess" /\ call.mean # None /\ call.vol # None
    /\ nrow(to_ndim_2(call.mean)) = 2 /\ nrow(to_ndim_2(call.vol)) = 3
    /\ ret = Raise("ConfigurationError") /\ self = None

\* the classes that inherit MarkovProcess._propagate_distr_impl
NoImpl == {"MarkovProcess", "SolvedItoMarkovProcess"}

\* C7 as stated: NotImplementedError is the outcome of propagate on a
\* SolvedItoProcess, of propagate_distr on a process that inherits
\* _propagate_distr_impl, and of propagate on a generic SolvedItoMarkovProcess
\* with noise_dim != process_dim, which leaves the cache as it was.
C7_Original ==
    [][/\ (self.cls = "SolvedItoProcess" /\ call'.op = "propagate")
            => ret' = NotImplemented
       /\ (self.cls \in NoImpl /\ IsDistrCall(call'))
            => ret' = NotImplemented
       /\ (/\ self.cls = "SolvedItoMarkovProcess"
           /\ self._noise_dim # self._process_dim /\ call'.op = "propagate")
            => (ret' = NotImplemented /\ nimpl' = 0 /\ self' = self)]_vars

\* C7: as C7_Original, with propagate_distr raising only when time != time0.
C7_Amended ==
    [][/\ (self.cls = "SolvedItoProcess" /\ call'.op = "propagate")
            => ret' = NotImplemented
       /\ (self.cls \in NoImpl /\ IsDistrCall(call') /\ call'.time # call'.time0)
            => ret' = NotImplemented
       /\ (/\ self.cls = "SolvedItoMarkovProcess"
           /\ self._noise_dim # self._process_dim /\ call'.op = "propagate")
            => (ret' = NotImplemented /\ nimpl' = 0 /\ self' = self)]_vars

\* C7 witness: propagate with time == time0 has raised NotImplementedError on
\* a generic process with noise_dim != process_dim.
C7_Witness ==
    /\ self.cls = "SolvedItoMarkovProcess" /\ self._noise_dim # self._process_dim
    /\ call.op = "propagate" /\ call.time = call.time0
    /\ ret = NotImplemented

\* C8: every propagate_distr call returns or raises what the same call returns
\* or raises on the reference process, which computes _propagate_distr_impl
\* on every call; a call that raises leaves the four cache fields as they were.
C8_Transparent ==
    [][IsDistrCall(call') =>
         /\ ret' = ref'.out
         /\ ret'.status = "raise" => CacheFields(self') = CacheFields(self)]_vars

\* the memo with key and value is coherent: the value is expm(-M * key)
Coherent(M, key, value) == key # None => expm_times(M, Neg(key)) = Ok(value)

\* C9: each of the two memos of an Ornstein-Uhlenbeck process holds, for its
\* cached time delta, the matrix exponential of that time delta.
C9_MemoCoherent ==
    self.cls = "OrnsteinUhlenbeckProcess" =>
        /\ Coherent(self._transition,
                    self._cached_mean_reversion_factor_time_delta,
                    self._cached_mean_reversion_factor)
        /\ Coherent(self._transition_x_2,
                    self._cached_mean_reversion_factor_squared_time_delta,
                    self._cached_mean_reversion_factor_squared)

\* the mean of the distribution a propagate_distr call returned
MeanOf(r) == IF r.out.status = "ok" THEN Ok(r.out.value.mean) ELSE r.out

\* C10: on a Wiener or Ornstein-Uhlenbeck process propagate with a zero
\* variate returns the mean of propagate_distr from the point mass at value0
\* over the same (time, time0).
C10_SameStep ==
    (/\ call.op = "propagate"
     /\ self.cls \in {"WienerProcess", "OrnsteinUhlenbeckProcess"}
     /\ IsZero(call.variate))
        => ret = MeanOf(propagate_distr(self, call.time, call.time0,
                          create_dirac_delta(to_ndim_2(call.value0))))

=============================================================================
